---- MODULE Spec2Model ----
(***************************************************************************)
(* Model of the movie-review program (src/src/processor.rs): the two       *)
(* handlers add_movie_review and update_movie_review acting on the         *)
(* accounts of the host ledger.  An account is an owner, a lamport balance *)
(* and a byte array; a review is stored Borsh-encoded in the first bytes   *)
(* of a 1000-byte account at a program-derived address.                    *)
(*                                                                         *)
(* Public keys and addresses are integers, strings are sequences of bytes. *)
(* Titles stay within the host's seed-length limit, so the derivation      *)
(* itself never fails.                                                     *)
(***************************************************************************)
EXTENDS Integers, Sequences, FiniteSets, TLC

\* The accounts of the ledger, by address.
VARIABLES accounts

vars == <<accounts>>

----------------------------------------------------------------------------
(* Bounds and input sets *)

\* How many review accounts each actor can fund with what it holds at the
\* start.
FundedByA == 2
FundedByB == 1

\* Actors' public keys.
KeyA == 1
KeyB == 2
\* A key-pair address at which the host may hold a program-owned account
\* that this program never populated.
KeyK == 3

Identities == {KeyA, KeyB}

TitleDune == <<68, 117, 110, 101>>
TitleUp == <<85, 112>>
Titles == {TitleDune, TitleUp}

Ratings == {0, 3, 5, 6}

\* The capacity of a review account, and the limit of the size check.
account_len == 1000
MaxDataLen == 1000

\* Filler(n, b): a string of n bytes b.
Filler(n, b) == [i \in 1..n |-> b]

\* Descriptions: a short one, and for the title "Up" the longest one that
\* fits (it is too long for "Dune") and the shortest one that does not.
DescShort == <<120>>
DescFit == Filler(MaxDataLen - 10 - Len(TitleUp), 121)
DescOver == Filler(MaxDataLen - 10 - Len(TitleUp) + 1, 122)
Descriptions == {DescShort, DescFit, DescOver}

----------------------------------------------------------------------------
(* Address derivation: Pubkey::find_program_address *)

program_id == "program_id"
system_program_id == "system_program"

RECURSIVE Digest(_)
\* A digest of the seed bytes.
Digest(s) == IF s = <<>> THEN 7 ELSE (31 * Digest(Tail(s)) + Head(s)) % 997

\* The hash of the seeds, the bump and the program id.
SeedHash(key, title, bump) == (key * 1000 + Digest(title)) * 1000 + bump

\* Whether a hash is a point of the curve, that is the address of a key pair.
IsOnCurve(h) == ((h \div 1000) + h) % 3 # 0

\* create_program_address: the address of the seeds with this bump, if it is
\* off the curve; 0 if it is not.
create_program_address(key, title, bump) ==
    IF IsOnCurve(SeedHash(key, title, bump)) THEN 0 ELSE SeedHash(key, title, bump)

RECURSIVE find_bump(_, _, _)
\* The first bump, from `bump` downwards, whose address is off the curve.
find_bump(key, title, bump) ==
    IF bump = 0 \/ ~IsOnCurve(SeedHash(key, title, bump))
    THEN bump
    ELSE find_bump(key, title, bump - 1)

\* find_program_address: the first bump, from 255 downwards, whose address is
\* off the curve, with that address.
find_program_address(key, title) ==
    LET bump == find_bump(key, title, 255)
    IN  [pda |-> SeedHash(key, title, bump), bump_seed |-> bump]

PdaAddresses == {find_program_address(k, t).pda : k \in Identities, t \in Titles}

Addresses == Identities \cup {KeyK} \cup PdaAddresses

\* The addresses a request may name as its review account.
TargetAddresses == PdaAddresses \cup {KeyK}

----------------------------------------------------------------------------
(* The review record and its Borsh layout: MovieAccountState *)

le32(n) == <<n % 256, (n \div 256) % 256, (n \div 65536) % 256, (n \div 16777216) % 256>>

from_le32(data, at) ==
    data[at] + 256 * data[at + 1] + 65536 * data[at + 2] + 16777216 * data[at + 3]

\* Mutant: the description is encoded before the title.
serialize_description_first(rec) ==
    <<IF rec.is_initialized THEN 1 ELSE 0, rec.rating>>
        \o le32(Len(rec.description)) \o rec.description
        \o le32(Len(rec.title)) \o rec.title

\* BorshSerialize for MovieAccountState.
serialize(rec) ==
    <<IF rec.is_initialized THEN 1 ELSE 0, rec.rating>>
        \o le32(Len(rec.title)) \o rec.title
        \o le32(Len(rec.description)) \o rec.description

\* try_from_slice_unchecked::<MovieAccountState>: decodes a prefix of the
\* data and ignores what follows it; fails on data that is too short or
\* whose flag byte is no boolean.
try_from_slice_unchecked(data) ==
    IF Len(data) < 6 \/ data[1] > 1
    THEN [ok |-> FALSE]
    ELSE LET tl == from_le32(data, 3)
         IN  IF Len(data) < 10 + tl
             THEN [ok |-> FALSE]
             ELSE LET dl == from_le32(data, 7 + tl)
                  IN  IF Len(data) < 10 + tl + dl
                      THEN [ok |-> FALSE]
                      ELSE [ok |-> TRUE,
                            value |-> [is_initialized |-> data[1] = 1,
                                       rating |-> data[2],
                                       title |-> SubSeq(data, 7, 6 + tl),
                                       description |-> SubSeq(data, 11 + tl, 10 + tl + dl)]]

\* account_data.serialize(&mut &mut data[..]): the encoding is written over
\* the start of the account's data and the bytes after it stay as they are;
\* an encoding longer than the data fills the data and fails.
serialize_into(data, enc) ==
    IF Len(enc) > Len(data)
    THEN [result |-> "BorshIoError", data |-> SubSeq(enc, 1, Len(data))]
    ELSE [result |-> "Ok", data |-> enc \o SubSeq(data, Len(enc) + 1, Len(data))]

----------------------------------------------------------------------------
(* The host: accounts, rent and the system program *)

NoData == <<>>

\* An address at which nothing was ever allocated.
Unallocated == [owner |-> system_program_id, lamports |-> 0, data |-> NoData]

\* Rent::minimum_balance.
minimum_balance(len) == (128 + len) * 3480 * 2

\* What each actor holds at the start.
InitialLamports(k) ==
    (IF k = KeyA THEN FundedByA ELSE FundedByB) * minimum_balance(account_len)

\* system_instruction::create_account, invoked with the signatures of
\* `from` and of the address `signed`: the outcome and the accounts after it.
create_account(accts, from, to, lamports, space, owner, signed) ==
    IF to # signed
    THEN [result |-> "MissingRequiredSignature", accounts |-> accts]
    ELSE IF accts[to].lamports > 0 \/ accts[to].data # NoData
            \/ accts[to].owner # system_program_id
    THEN [result |-> "AccountAlreadyInUse", accounts |-> accts]
    ELSE IF accts[from].lamports < lamports
    THEN [result |-> "ResultWithNegativeLamports", accounts |-> accts]
    ELSE [result |-> "Ok",
          accounts |-> [accts EXCEPT
              ![from].lamports = @ - lamports,
              ![to] = [owner |-> owner, lamports |-> lamports,
                       data |-> Filler(space, 0)]]]

----------------------------------------------------------------------------
(* The handlers *)

\* A request: the decoded instruction with the accounts the caller passed.
Requests ==
    [initializer : Identities, is_signer : BOOLEAN, pda_account : TargetAddresses,
     title : Titles, rating : Ratings, description : Descriptions]

\* Mutant: only the upper end of the scale is checked.
RatingOutOfRange_upper_only(rating) == rating > 5

\* The rating check of both handlers.
RatingOutOfRange(rating) == rating > 5 \/ rating < 1

\* Mutant: the two length prefixes are left out of the size.
total_len_no_prefixes(title, description) == 1 + 1 + Len(title) + Len(description)

\* The encoded size that both handlers compute before they write.
total_len(title, description) == 1 + 1 + (4 + Len(title)) + (4 + Len(description))

\* Mutant: a record that fills the slot exactly is refused too.
DataTooLong_at_capacity(title, description) == total_len(title, description) >= MaxDataLen

DataTooLong(title, description) == total_len(title, description) > MaxDataLen

\* Mutant: the rating is checked before the address.
add_movie_review_checks_rating_first(req) ==
    IF ~req.is_signer THEN "MissingRequiredSignature"
    ELSE IF RatingOutOfRange(req.rating) THEN "InvalidRating"
    ELSE IF find_program_address(req.initializer, req.title).pda # req.pda_account
    THEN "InvalidArgument"
    ELSE IF DataTooLong(req.title, req.description) THEN "InvalidDataLength"
    ELSE "Ok"

\* Mutant: the address passed in is not compared with the derived one.
add_movie_review_checks_no_address(req) ==
    IF ~req.is_signer THEN "MissingRequiredSignature"
    ELSE IF RatingOutOfRange(req.rating) THEN "InvalidRating"
    ELSE IF DataTooLong(req.title, req.description) THEN "InvalidDataLength"
    ELSE "Ok"

\* The checks of add_movie_review, in the order of the code: the error of
\* the first one that fails, "Ok" if none does.
add_movie_review_checks(req) ==
    IF ~req.is_signer THEN "MissingRequiredSignature"
    ELSE IF find_program_address(req.initializer, req.title).pda # req.pda_account
    THEN "InvalidArgument"
    ELSE IF RatingOutOfRange(req.rating) THEN "InvalidRating"
    ELSE IF DataTooLong(req.title, req.description) THEN "InvalidDataLength"
    ELSE "Ok"

\* Mutant: the record is written without its initialized flag being set.
add_movie_review_write_no_flag(accts, req) ==
    LET unpacked == try_from_slice_unchecked(accts[req.pda_account].data)
    IN  IF ~unpacked.ok
        THEN [result |-> "Panic", accounts |-> accts]
        ELSE LET account_data == [unpacked.value EXCEPT
                                    !.title = req.title,
                                    !.rating = req.rating,
                                    !.description = req.description]
                 written == serialize_into(accts[req.pda_account].data,
                                           serialize(account_data))
             IN  [result |-> written.result,
                  accounts |-> [accts EXCEPT ![req.pda_account].data = written.data]]

\* What add_movie_review writes into the account it has just created.
add_movie_review_write(accts, req) ==
    LET unpacked == try_from_slice_unchecked(accts[req.pda_account].data)
    IN  IF ~unpacked.ok
        THEN [result |-> "Panic", accounts |-> accts]
        ELSE LET account_data == [unpacked.value EXCEPT
                                    !.title = req.title,
                                    !.rating = req.rating,
                                    !.description = req.description,
                                    !.is_initialized = TRUE]
                 written == serialize_into(accts[req.pda_account].data,
                                           serialize(account_data))
             IN  [result |-> written.result,
                  accounts |-> [accts EXCEPT ![req.pda_account].data = written.data]]

\* Mutant: the result of the allocation is dropped and the record written
\* whether or not the account was created.
add_movie_review_unchecked_allocation(accts, req) ==
    LET failed == add_movie_review_checks(req)
        found == find_program_address(req.initializer, req.title)
        created == create_account(accts, req.initializer, req.pda_account,
                       minimum_balance(account_len), account_len, program_id,
                       create_program_address(req.initializer, req.title, found.bump_seed))
    IN  IF failed # "Ok" THEN [result |-> failed, accounts |-> accts]
        ELSE add_movie_review_write(created.accounts, req)

\* add_movie_review: the result, and the accounts as the handler leaves them
\* when it returns.
add_movie_review(accts, req) ==
    LET failed == add_movie_review_checks(req)
        found == find_program_address(req.initializer, req.title)
        created == create_account(accts, req.initializer, req.pda_account,
                       minimum_balance(account_len), account_len, program_id,
                       create_program_address(req.initializer, req.title, found.bump_seed))
    IN  IF failed # "Ok" THEN [result |-> failed, accounts |-> accts]
        ELSE IF created.result # "Ok" THEN [result |-> created.result, accounts |-> accts]
        ELSE add_movie_review_write(created.accounts, req)

\* Mutant: the initialized flag is checked before the address.
update_movie_review_checks_flag_first(accts, req) ==
    IF accts[req.pda_account].owner # program_id THEN "IllegalOwner"
    ELSE IF ~req.is_signer THEN "MissingRequiredSignature"
    ELSE LET unpacked == try_from_slice_unchecked(accts[req.pda_account].data)
         IN  IF ~unpacked.ok THEN "Panic"
             ELSE IF ~unpacked.value.is_initialized THEN "UninitializedAccount"
             ELSE IF find_program_address(req.initializer, unpacked.value.title).pda
                       # req.pda_account
             THEN "InvalidPDA"
             ELSE IF RatingOutOfRange(req.rating) THEN "InvalidRating"
             ELSE IF DataTooLong(unpacked.value.title, req.description)
             THEN "InvalidDataLength"
             ELSE "Ok"

\* Mutant: the signature of the initializer is not checked.
update_movie_review_checks_unsigned(accts, req) ==
    IF accts[req.pda_account].owner # program_id THEN "IllegalOwner"
    ELSE LET unpacked == try_from_slice_unchecked(accts[req.pda_account].data)
         IN  IF ~unpacked.ok THEN "Panic"
             ELSE IF find_program_address(req.initializer, unpacked.value.title).pda
                       # req.pda_account
             THEN "InvalidPDA"
             ELSE IF ~unpacked.value.is_initialized THEN "UninitializedAccount"
             ELSE IF RatingOutOfRange(req.rating) THEN "InvalidRating"
             ELSE IF DataTooLong(unpacked.value.title, req.description)
             THEN "InvalidDataLength"
             ELSE "Ok"

\* Mutant: the address and the size are computed from the title of the
\* request.
update_movie_review_checks_request_title(accts, req) ==
    IF accts[req.pda_account].owner # program_id THEN "IllegalOwner"
    ELSE IF ~req.is_signer THEN "MissingRequiredSignature"
    ELSE LET unpacked == try_from_slice_unchecked(accts[req.pda_account].data)
         IN  IF ~unpacked.ok THEN "Panic"
             ELSE IF find_program_address(req.initializer, req.title).pda
                       # req.pda_account
             THEN "InvalidPDA"
             ELSE IF ~unpacked.value.is_initialized THEN "UninitializedAccount"
             ELSE IF RatingOutOfRange(req.rating) THEN "InvalidRating"
             ELSE IF DataTooLong(req.title, req.description)
             THEN "InvalidDataLength"
             ELSE "Ok"

\* The checks of update_movie_review, in the order of the code.
update_movie_review_checks(accts, req) ==
    IF accts[req.pda_account].owner # program_id THEN "IllegalOwner"
    ELSE IF ~req.is_signer THEN "MissingRequiredSignature"
    ELSE LET unpacked == try_from_slice_unchecked(accts[req.pda_account].data)
         IN  IF ~unpacked.ok THEN "Panic"
             ELSE IF find_program_address(req.initializer, unpacked.value.title).pda
                       # req.pda_account
             THEN "InvalidPDA"
             ELSE IF ~unpacked.value.is_initialized THEN "UninitializedAccount"
             ELSE IF RatingOutOfRange(req.rating) THEN "InvalidRating"
             ELSE IF DataTooLong(unpacked.value.title, req.description)
             THEN "InvalidDataLength"
             ELSE "Ok"

\* Mutant: the title of the request is written too.
update_movie_review_write_sets_title(accts, req) ==
    LET account_data == [try_from_slice_unchecked(accts[req.pda_account].data).value
                            EXCEPT !.title = req.title,
                                   !.rating = req.rating,
                                   !.description = req.description]
        written == serialize_into(accts[req.pda_account].data, serialize(account_data))
    IN  [result |-> written.result,
         accounts |-> [accts EXCEPT ![req.pda_account].data = written.data]]

\* Mutant: the description of the request is appended to the stored one.
update_movie_review_write_appends(accts, req) ==
    LET stored == try_from_slice_unchecked(accts[req.pda_account].data).value
        account_data == [stored EXCEPT !.rating = req.rating,
                                       !.description = stored.description \o req.description]
        written == serialize_into(accts[req.pda_account].data, serialize(account_data))
    IN  [result |-> written.result,
         accounts |-> [accts EXCEPT ![req.pda_account].data = written.data]]

\* Mutant: the rating of the request is not assigned.
update_movie_review_write_keeps_rating(accts, req) ==
    LET account_data == [try_from_slice_unchecked(accts[req.pda_account].data).value
                            EXCEPT !.description = req.description]
        written == serialize_into(accts[req.pda_account].data, serialize(account_data))
    IN  [result |-> written.result,
         accounts |-> [accts EXCEPT ![req.pda_account].data = written.data]]

\* Mutant: the record is written to the slot derived from the title of the
\* request.
update_movie_review_write_at_request_title(accts, req) ==
    LET account_data == [try_from_slice_unchecked(accts[req.pda_account].data).value
                            EXCEPT !.rating = req.rating,
                                   !.description = req.description]
        to == find_program_address(req.initializer, req.title).pda
        written == serialize_into(accts[to].data, serialize(account_data))
    IN  [result |-> written.result,
         accounts |-> [accts EXCEPT ![to].data = written.data]]

\* What update_movie_review writes: the stored record with the rating and
\* the description of the request.
update_movie_review_write(accts, req) ==
    LET account_data == [try_from_slice_unchecked(accts[req.pda_account].data).value
                            EXCEPT !.rating = req.rating,
                                   !.description = req.description]
        written == serialize_into(accts[req.pda_account].data, serialize(account_data))
    IN  [result |-> written.result,
         accounts |-> [accts EXCEPT ![req.pda_account].data = written.data]]

\* update_movie_review: the result, and the accounts as the handler leaves
\* them when it returns.
update_movie_review(accts, req) ==
    LET failed == update_movie_review_checks(accts, req)
    IN  IF failed # "Ok" THEN [result |-> failed, accounts |-> accts]
        ELSE update_movie_review_write(accts, req)

----------------------------------------------------------------------------
(* The state machine *)

Init ==
    accounts = [a \in Addresses |->
                  IF a \in Identities
                  THEN [owner |-> system_program_id, lamports |-> InitialLamports(a),
                        data |-> NoData]
                  ELSE Unallocated]

\* The host commits what a handler did to the accounts if it returns Ok and
\* discards it otherwise.
Commit(out) == IF out.result = "Ok" THEN out.accounts ELSE accounts

\* process_instruction, MovieInstruction::AddMovieReview.  The requests that
\* the handler refuses with the same error lead to the same state: one of
\* them stands for all.
AddMovieReview ==
    \/ \E req \in Requests :
          /\ add_movie_review(accounts, req).result = "Ok"
          /\ accounts' = Commit(add_movie_review(accounts, req))
    \/ \E e \in {add_movie_review(accounts, req).result : req \in Requests} \ {"Ok"} :
          LET req == CHOOSE r \in Requests : add_movie_review(accounts, r).result = e
          IN  accounts' = Commit(add_movie_review(accounts, req))

\* process_instruction, MovieInstruction::UpdateMovieReview.
UpdateMovieReview ==
    \/ \E req \in Requests :
          /\ update_movie_review(accounts, req).result = "Ok"
          /\ accounts' = Commit(update_movie_review(accounts, req))
    \/ \E e \in {update_movie_review(accounts, req).result : req \in Requests} \ {"Ok"} :
          LET req == CHOOSE r \in Requests : update_movie_review(accounts, r).result = e
          IN  accounts' = Commit(update_movie_review(accounts, req))

\* The host allocates, for some other party, a zero-filled account of the
\* review capacity owned by this program at a key-pair address.
HostAllocate ==
    /\ accounts[KeyK] = Unallocated
    /\ accounts' = [accounts EXCEPT ![KeyK] =
                      [owner |-> program_id, lamports |-> minimum_balance(account_len),
                       data |-> Filler(account_len, 0)]]

Next == AddMovieReview \/ UpdateMovieReview \/ HostAllocate

Spec == Init /\ [][Next]_vars

----------------------------------------------------------------------------
(* Vocabulary of the properties *)

\* The error kinds of the specification, as the handlers raise them.
Unauthorized == "MissingRequiredSignature"
CreateInvalidAddress == "InvalidArgument"
UpdateInvalidAddress == "InvalidPDA"
InvalidRating == "InvalidRating"
RecordTooLarge == "InvalidDataLength"
IllegalOwner == "IllegalOwner"
UninitializedAccount == "UninitializedAccount"
AllocationFailed == {"AccountAlreadyInUse", "ResultWithNegativeLamports"}

\* derive(identity, label).
Derive(identity, label) == find_program_address(identity, label).pda

\* The preconditions of a request, each stated on its own.
Authenticated(req) == req.is_signer
RatingInRange(req) == 1 <= req.rating /\ req.rating <= 5
EncodedSize(title, description) == 1 + 1 + (4 + Len(title)) + (4 + Len(description))

\* The record stored at an address, and whether one is stored there.
Decodes(a) == try_from_slice_unchecked(accounts[a].data).ok
Stored(a) == try_from_slice_unchecked(accounts[a].data).value
OwnedByProgram(a) == accounts[a].owner = program_id
Initialized(a) == OwnedByProgram(a) /\ Decodes(a) /\ Stored(a).is_initialized

\* The derived addresses, each with the identity and the label it is
\* derived from.
DerivedAddresses ==
    {[address |-> Derive(k, t), identity |-> k, label |-> t] :
        k \in Identities, t \in Titles}

\* Whether a request with this outcome changes the slot at an address: the
\* host commits it and the slot is not as it was.
Changes(out, a) == out.result = "Ok" /\ out.accounts[a] # accounts[a]

\* A request that violates every precondition of Create at once.
ViolatesAllOfCreate(req) ==
    /\ ~Authenticated(req)
    /\ req.pda_account # Derive(req.initializer, req.title)
    /\ ~RatingInRange(req)
    /\ EncodedSize(req.title, req.description) > 1000

----------------------------------------------------------------------------
(* Properties *)

\* C1: Create checks authentication, address match, rating range and encoded
\* size in this order and returns the error of the first check that fails;
\* it asks for the allocation, and touches the accounts, only when all four
\* pass.
C1_CreateReportsFirstViolation ==
    \A req \in Requests :
        LET out == add_movie_review(accounts, req)
            addrOk == req.pda_account = Derive(req.initializer, req.title)
            sizeOk == EncodedSize(req.title, req.description) <= 1000
        IN  /\ ~Authenticated(req) => out.result = Unauthorized
            /\ Authenticated(req) /\ ~addrOk => out.result = CreateInvalidAddress
            /\ Authenticated(req) /\ addrOk /\ ~RatingInRange(req)
                  => out.result = InvalidRating
            /\ Authenticated(req) /\ addrOk /\ RatingInRange(req) /\ ~sizeOk
                  => out.result = RecordTooLarge
            /\ (out.result \in AllocationFailed \cup {"Ok"} \/ out.accounts # accounts)
                  => Authenticated(req) /\ addrOk /\ RatingInRange(req) /\ sizeOk

\* C1 witness: with reviews stored, a Create that violates all four
\* preconditions is refused for its missing signature, and one that violates
\* the last two for its rating.
C1_Witness ==
    /\ \E a \in PdaAddresses : Initialized(a)
    /\ \E req \in Requests :
          ViolatesAllOfCreate(req) /\ add_movie_review(accounts, req).result = Unauthorized
    /\ \E req \in Requests :
          /\ Authenticated(req) /\ req.pda_account = Derive(req.initializer, req.title)
          /\ ~RatingInRange(req) /\ EncodedSize(req.title, req.description) > 1000
          /\ add_movie_review(accounts, req).result = InvalidRating

\* What C2 expects of an Update: the error of the first violated precondition
\* in the order owner, authentication, address against the stored title,
\* initialized flag, rating, size with the stored title.
FirstViolationOfUpdate(req) ==
    IF ~OwnedByProgram(req.pda_account) THEN IllegalOwner
    ELSE IF ~Authenticated(req) THEN Unauthorized
    ELSE IF req.pda_account # Derive(req.initializer, Stored(req.pda_account).title)
    THEN UpdateInvalidAddress
    ELSE IF ~Stored(req.pda_account).is_initialized THEN UninitializedAccount
    ELSE IF ~RatingInRange(req) THEN InvalidRating
    ELSE IF EncodedSize(Stored(req.pda_account).title, req.description) > 1000
    THEN RecordTooLarge
    ELSE "Ok"

\* C2: Update checks the owner of the slot, authentication, the address
\* against the stored title, the initialized flag, the rating and the size in
\* this order and returns the error of the first check that fails; on a slot
\* the program does not own it returns IllegalOwner whatever the rest is.
C2_UpdateReportsFirstViolation ==
    \A req \in Requests :
        /\ OwnedByProgram(req.pda_account) => Decodes(req.pda_account)
        /\ update_movie_review(accounts, req).result = FirstViolationOfUpdate(req)

\* C2 witness: beside a stored review there is a program-owned slot that was
\* never populated; an unsigned Update with a bad rating on an unallocated
\* address gets IllegalOwner, and a signed one with a bad rating on the
\* unpopulated slot gets the address error.
C2_Witness ==
    /\ \E a \in PdaAddresses : Initialized(a)
    /\ OwnedByProgram(KeyK) /\ ~Initialized(KeyK)
    /\ \E req \in Requests :
          /\ accounts[req.pda_account] = Unallocated
          /\ ~Authenticated(req) /\ ~RatingInRange(req)
          /\ update_movie_review(accounts, req).result = IllegalOwner
    /\ \E req \in Requests :
          /\ req.pda_account = KeyK
          /\ Authenticated(req) /\ ~RatingInRange(req)
          /\ update_movie_review(accounts, req).result = UpdateInvalidAddress

\* C3: a request changes the slot at an address derived from an identity and
\* a label only if it presents that identity, authenticated.
C3_OnlyOwnerWrites ==
    \A req \in Requests :
        LET added == add_movie_review(accounts, req)
            updated == update_movie_review(accounts, req)
        IN  \A d \in DerivedAddresses :
                Changes(added, d.address) \/ Changes(updated, d.address)
                    => req.initializer = d.identity /\ Authenticated(req)

\* C3 witness: a stored review that its owner can update, while the same
\* Update fails when it comes from the other identity or without signature.
C3_Witness ==
    \E req \in Requests :
        /\ Initialized(req.pda_account)
        /\ Authenticated(req)
        /\ Changes(update_movie_review(accounts, req), req.pda_account)
        /\ \A other \in Requests :
              /\ other.pda_account = req.pda_account
              /\ other.rating = req.rating /\ other.description = req.description
              /\ (other.initializer # req.initializer \/ ~Authenticated(other))
              => update_movie_review(accounts, other).result
                    \in {Unauthorized, UpdateInvalidAddress}

\* C4: every initialized record has a rating from 1 to 5 and an encoded size
\* of at most 1000 bytes.
C4_InitializedRecordsValid ==
    \A a \in Addresses :
        Initialized(a) =>
            /\ 1 <= Stored(a).rating /\ Stored(a).rating <= 5
            /\ EncodedSize(Stored(a).title, Stored(a).description) <= 1000

\* C4 witness: a stored review that fills its slot to the last byte, and one
\* whose rating was changed by an Update of a shorter description.
C4_Witness ==
    /\ \E a \in Addresses :
          /\ Initialized(a)
          /\ EncodedSize(Stored(a).title, Stored(a).description) = 1000
    /\ \E a \in Addresses :
          /\ Initialized(a)
          /\ accounts[a].data # serialize(Stored(a)) \o Filler(1000 - Len(serialize(Stored(a))), 0)

\* C5: an initialized record stays initialized in every later state, and a
\* derived address that a Create allocates holds an initialized record from
\* that step on.
C5_InitializedForever ==
    [][\A a \in Addresses :
          /\ Initialized(a) => Initialized(a)'
          /\ a \in PdaAddresses /\ ~OwnedByProgram(a) /\ OwnedByProgram(a)'
                => Initialized(a)']_vars

\* C5 witness: a record that is initialized after an Update has rewritten it
\* with a shorter description, on which a further Create is refused.
C5_Witness ==
    \E a \in PdaAddresses :
        /\ Initialized(a)
        /\ accounts[a].data #
              serialize(Stored(a)) \o Filler(account_len - Len(serialize(Stored(a))), 0)
        /\ \E req \in Requests :
              /\ req.pda_account = a
              /\ add_movie_review(accounts, req).result \in AllocationFailed

\* C6: a Create on an address that holds an initialized record fails and
\* leaves the record as it is: at the allocation when it comes from the
\* identity and title the address is derived from, at the address check when
\* it comes signed from another identity.
C6_CreateOnInitializedFails ==
    \A req \in Requests :
        Initialized(req.pda_account) =>
            LET out == add_movie_review(accounts, req)
            IN  /\ out.result # "Ok"
                /\ out.accounts[req.pda_account] = accounts[req.pda_account]
                /\ Authenticated(req)
                      /\ req.pda_account = Derive(req.initializer, req.title)
                      /\ RatingInRange(req)
                      /\ EncodedSize(req.title, req.description) <= 1000
                      => out.result = "AccountAlreadyInUse"
                /\ Authenticated(req)
                      /\ req.pda_account # Derive(req.initializer, req.title)
                      => out.result = CreateInvalidAddress

\* C6 witness: on an initialized record, the Create of its own identity and
\* title is refused by the host and the signed Create of the other identity
\* by the address check.
C6_Witness ==
    \E d \in DerivedAddresses :
        /\ Initialized(d.address)
        /\ \E req \in Requests :
              /\ req.pda_account = d.address /\ req.initializer = d.identity
              /\ req.title = d.label
              /\ add_movie_review(accounts, req).result = "AccountAlreadyInUse"
        /\ \E req \in Requests :
              /\ req.pda_account = d.address /\ req.initializer # d.identity
              /\ req.title = d.label
              /\ add_movie_review(accounts, req).result = CreateInvalidAddress

\* C7: a Create or Update that returns an error has touched no account when
\* it returns: no slot is allocated and no byte of a slot is changed.
C7_ErrorsHaveNoEffect ==
    \A req \in Requests :
        LET added == add_movie_review(accounts, req)
            updated == update_movie_review(accounts, req)
        IN  /\ added.result # "Ok" => added.accounts = accounts
            /\ updated.result # "Ok" => updated.accounts = accounts

\* C7 witness: with a review stored, a Create fails at the allocation for
\* lack of funds and an Update fails at the size check.
C7_Witness ==
    /\ \E a \in PdaAddresses : Initialized(a)
    /\ \E req \in Requests :
          add_movie_review(accounts, req).result = "ResultWithNegativeLamports"
    /\ \E req \in Requests :
          update_movie_review(accounts, req).result = RecordTooLarge

\* C8 as stated: every Create and every Update with a rating outside 1..5
\* returns InvalidRating and leaves the accounts unchanged.
C8_AsStated ==
    \A req \in Requests :
        ~RatingInRange(req) =>
            /\ add_movie_review(accounts, req).result = InvalidRating
            /\ update_movie_review(accounts, req).result = InvalidRating

\* C8 amended: a Create or Update with a rating outside 1..5 fails and
\* leaves the accounts unchanged; its error is InvalidRating when the checks
\* that precede the rating check pass (Create: signature and address; Update:
\* owner, signature, address and initialized flag).
C8_BadRatingFails ==
    \A req \in Requests :
        ~RatingInRange(req) =>
            LET added == add_movie_review(accounts, req)
                updated == update_movie_review(accounts, req)
            IN  /\ added.result # "Ok" /\ added.accounts = accounts
                /\ updated.result # "Ok" /\ updated.accounts = accounts
                /\ Authenticated(req)
                      /\ req.pda_account = Derive(req.initializer, req.title)
                      => added.result = InvalidRating
                /\ Initialized(req.pda_account) /\ Authenticated(req)
                      /\ req.pda_account =
                            Derive(req.initializer, Stored(req.pda_account).title)
                      => updated.result = InvalidRating

\* C8 witness: a stored review whose owner's Update with rating 0 and whose
\* owner's Create of another title with rating 6 both get InvalidRating.
C8_Witness ==
    /\ \E req \in Requests :
          /\ req.rating = 0
          /\ update_movie_review(accounts, req).result = InvalidRating
    /\ \E req \in Requests :
          /\ req.rating = 6
          /\ accounts[req.pda_account] = Unallocated
          /\ add_movie_review(accounts, req).result = InvalidRating

\* C9 as stated: every Create whose target address is not the derived one
\* returns the address error.
C9_AsStated ==
    \A req \in Requests :
        req.pda_account # Derive(req.initializer, req.title)
            => add_movie_review(accounts, req).result = CreateInvalidAddress

\* C9 amended: a Create whose target address is not the derived one
\* allocates nothing and fails, with the address error when the initializer
\* has signed and with Unauthorized when it has not.
C9_WrongAddressFails ==
    \A req \in Requests :
        req.pda_account # Derive(req.initializer, req.title) =>
            LET out == add_movie_review(accounts, req)
            IN  /\ out.result = IF Authenticated(req) THEN CreateInvalidAddress
                                ELSE Unauthorized
                /\ out.accounts = accounts

\* C9 witness: with a review stored, a signed and otherwise valid Create that
\* names a free address derived from the other identity gets the address
\* error.
C9_Witness ==
    /\ \E a \in PdaAddresses : Initialized(a)
    /\ \E req \in Requests :
          /\ Authenticated(req) /\ RatingInRange(req)
          /\ EncodedSize(req.title, req.description) <= 1000
          /\ accounts[req.pda_account] = Unallocated
          /\ \E k \in Identities \ {req.initializer} :
                req.pda_account = Derive(k, req.title)
          /\ add_movie_review(accounts, req).result = CreateInvalidAddress

\* C10 as stated: every Update on a program-owned slot whose decoded
\* initialized flag is false returns UninitializedAccount.
C10_AsStated ==
    \A req \in Requests :
        OwnedByProgram(req.pda_account) /\ Decodes(req.pda_account)
            /\ ~Stored(req.pda_account).is_initialized
            => update_movie_review(accounts, req).result = UninitializedAccount

\* C10 amended: an Update on a program-owned slot whose decoded initialized
\* flag is false fails and changes nothing; it returns Unauthorized when the
\* initializer has not signed, the address error when the slot is not at the
\* address derived from the initializer and the decoded title, and
\* UninitializedAccount only when both of these checks pass.
C10_UninitializedSlotFails ==
    \A req \in Requests :
        OwnedByProgram(req.pda_account) /\ Decodes(req.pda_account)
            /\ ~Stored(req.pda_account).is_initialized
            =>
            LET out == update_movie_review(accounts, req)
            IN  /\ out.accounts = accounts
                /\ out.result =
                      IF ~Authenticated(req) THEN Unauthorized
                      ELSE IF req.pda_account #
                                Derive(req.initializer, Stored(req.pda_account).title)
                      THEN UpdateInvalidAddress
                      ELSE UninitializedAccount

\* C10 witness: a program-owned, zero-filled slot that was never populated,
\* on which a signed Update with a valid rating gets the address error.
C10_Witness ==
    /\ OwnedByProgram(KeyK)
    /\ accounts[KeyK].data = Filler(account_len, 0)
    /\ ~Stored(KeyK).is_initialized
    /\ \E req \in Requests :
          /\ req.pda_account = KeyK
          /\ Authenticated(req) /\ RatingInRange(req)
          /\ update_movie_review(accounts, req).result = UpdateInvalidAddress

\* The record that a handler's outcome leaves at an address.
StoredAfter(out, a) == try_from_slice_unchecked(out.accounts[a].data).value

\* C11: a successful Update leaves the title and the initialized flag of the
\* record as they were, and the slot with its owner, its capacity of 1000
\* bytes and its deposit; the balance of the caller is not touched either.
C11_UpdateKeepsTitleAndSlot ==
    \A req \in Requests :
        LET out == update_movie_review(accounts, req)
            a == req.pda_account
        IN  out.result = "Ok" =>
                /\ StoredAfter(out, a).title = Stored(a).title
                /\ StoredAfter(out, a).is_initialized = Stored(a).is_initialized
                /\ Len(out.accounts[a].data) = 1000
                /\ Len(accounts[a].data) = 1000
                /\ out.accounts[a].lamports = accounts[a].lamports
                /\ out.accounts[a].owner = accounts[a].owner
                /\ out.accounts[req.initializer] = accounts[req.initializer]

\* C11 witness: a successful Update that carries another title than the
\* stored one and changes both the rating and the description.
C11_Witness ==
    \E req \in Requests :
        LET out == update_movie_review(accounts, req)
            a == req.pda_account
        IN  /\ out.result = "Ok"
            /\ req.title # Stored(a).title
            /\ StoredAfter(out, a).rating # Stored(a).rating
            /\ StoredAfter(out, a).description # Stored(a).description

\* The accounts after a handler's outcome on accts: the host keeps the writes
\* of an instruction that returned Ok and drops those of one that failed.
CommitOn(accts, out) == IF out.result = "Ok" THEN out.accounts ELSE accts

\* C12: an Update applied a second time to the state the first one left
\* returns the result of the first and leaves every byte of every account as
\* the first one left it.
C12_UpdateIdempotent ==
    \A req \in Requests :
        LET once == update_movie_review(accounts, req)
            after == CommitOn(accounts, once)
            twice == update_movie_review(after, req)
        IN  /\ twice.result = once.result
            /\ CommitOn(after, twice) = after

\* C12 witness: a successful Update that changes the bytes of its slot, and
\* whose repetition succeeds too.
C12_Witness ==
    \E req \in Requests :
        LET once == update_movie_review(accounts, req)
        IN  /\ once.result = "Ok"
            /\ once.accounts[req.pda_account].data # accounts[req.pda_account].data
            /\ update_movie_review(once.accounts, req).result = "Ok"

\* Every precondition of Create but the size: authenticated, at the derived
\* address, rating in range, and the allocation possible.
CreateOtherwiseValid(req) ==
    /\ Authenticated(req)
    /\ req.pda_account = Derive(req.initializer, req.title)
    /\ RatingInRange(req)
    /\ accounts[req.pda_account] = Unallocated
    /\ accounts[req.initializer].lamports >= minimum_balance(account_len)

\* Every precondition of Update but the size: slot owned by the program,
\* authenticated, at the address derived from the stored title, initialized,
\* rating in range.
UpdateOtherwiseValid(req) ==
    /\ OwnedByProgram(req.pda_account)
    /\ Authenticated(req)
    /\ Decodes(req.pda_account)
    /\ req.pda_account = Derive(req.initializer, Stored(req.pda_account).title)
    /\ Stored(req.pda_account).is_initialized
    /\ RatingInRange(req)

\* C13: with every other precondition holding, a Create whose record encodes
\* to exactly 1000 bytes succeeds and one of 1001 bytes fails with
\* RecordTooLarge; so does an Update, whose size is that of the stored title
\* with the requested description, whatever title the request carries.
C13_CapacityBoundary ==
    \A req \in Requests :
        /\ CreateOtherwiseValid(req) =>
              LET size == EncodedSize(req.title, req.description)
                  result == add_movie_review(accounts, req).result
              IN  /\ size = 1000 => result = "Ok"
                  /\ size = 1001 => result = RecordTooLarge
        /\ UpdateOtherwiseValid(req) =>
              LET size == EncodedSize(Stored(req.pda_account).title, req.description)
                  result == update_movie_review(accounts, req).result
              IN  /\ size = 1000 => result = "Ok"
                  /\ size = 1001 => result = RecordTooLarge

\* C13 witness: a state where a Create of exactly 1000 bytes succeeds and one
\* of 1001 bytes is refused, and where an Update of exactly 1000 bytes by the
\* stored title succeeds although the request's title would make it 1002, and
\* one of 1001 bytes is refused.
C13_Witness ==
    /\ \E req \in Requests :
          /\ CreateOtherwiseValid(req)
          /\ EncodedSize(req.title, req.description) = 1000
          /\ add_movie_review(accounts, req).result = "Ok"
    /\ \E req \in Requests :
          /\ CreateOtherwiseValid(req)
          /\ EncodedSize(req.title, req.description) = 1001
          /\ add_movie_review(accounts, req).result = RecordTooLarge
    /\ \E req \in Requests :
          /\ UpdateOtherwiseValid(req)
          /\ EncodedSize(Stored(req.pda_account).title, req.description) = 1000
          /\ EncodedSize(req.title, req.description) > 1000
          /\ update_movie_review(accounts, req).result = "Ok"
    /\ \E req \in Requests :
          /\ UpdateOtherwiseValid(req)
          /\ EncodedSize(Stored(req.pda_account).title, req.description) = 1001
          /\ update_movie_review(accounts, req).result = RecordTooLarge

\* C14: after a successful Create the slot at derive(identity, title) is the
\* target, is owned by the program, holds the rent-exempt deposit and 1000
\* bytes, and decodes to the record {initialized, rating, title, description}
\* of the request.
C14_CreateStoresRecord ==
    \A req \in Requests :
        LET out == add_movie_review(accounts, req)
            a == Derive(req.initializer, req.title)
        IN  out.result = "Ok" =>
                /\ req.pda_account = a
                /\ out.accounts[a].owner = program_id
                /\ Len(out.accounts[a].data) = 1000
                /\ out.accounts[a].lamports = minimum_balance(1000)
                /\ try_from_slice_unchecked(out.accounts[a].data).ok
                /\ StoredAfter(out, a) = [is_initialized |-> TRUE,
                                          rating |-> req.rating,
                                          title |-> req.title,
                                          description |-> req.description]

\* C14 witness: a Create succeeds at a slot that did not exist before, with
\* a record that fills the slot to its last byte.
C14_Witness ==
    \E req \in Requests :
        /\ add_movie_review(accounts, req).result = "Ok"
        /\ accounts[req.pda_account] = Unallocated
        /\ EncodedSize(req.title, req.description) = 1000

\* A request that passes the signature check of Create and fails its address
\* check.
CreateAddressMismatch(req) ==
    /\ Authenticated(req)
    /\ req.pda_account # Derive(req.initializer, req.title)

\* A request that passes every check of Update before the address check and
\* fails that one.
UpdateAddressMismatch(req) ==
    /\ OwnedByProgram(req.pda_account)
    /\ Authenticated(req)
    /\ Decodes(req.pda_account)
    /\ req.pda_account # Derive(req.initializer, Stored(req.pda_account).title)

\* C15 as stated: Create and Update report an address mismatch as one and the
\* same error kind, which is none of the other kinds.
C15_AsStated ==
    \A u \in Requests :
        UpdateAddressMismatch(u) =>
            \A c \in Requests :
                CreateAddressMismatch(c) =>
                    /\ add_movie_review(accounts, c).result
                          = update_movie_review(accounts, u).result
                    /\ add_movie_review(accounts, c).result
                          \notin {Unauthorized, InvalidRating, RecordTooLarge,
                                  IllegalOwner, UninitializedAccount}
                                 \cup AllocationFailed

\* C16: two Updates that differ only in the title they carry, applied to the
\* same state, return the same result and leave the same bytes in every
\* account.
C16_UpdateIgnoresRequestTitle ==
    \A req \in Requests :
        \A title \in Titles :
            update_movie_review(accounts, [req EXCEPT !.title = title])
                = update_movie_review(accounts, req)

\* C16 witness: an Update succeeds with a title that is not the stored one,
\* that derives another address than the target, and that would make the
\* record too large for the slot.
C16_Witness ==
    \E req \in Requests :
        /\ update_movie_review(accounts, req).result = "Ok"
        /\ req.title # Stored(req.pda_account).title
        /\ Derive(req.initializer, req.title) # req.pda_account
        /\ EncodedSize(req.title, req.description) > 1000

\* The records of the round trip: every flag, the ratings of the requests and
\* the largest byte, the titles and descriptions of the requests and the
\* empty string.
RoundTripRecords ==
    [is_initialized : BOOLEAN,
     rating : Ratings \cup {255},
     title : Titles \cup {<<>>},
     description : Descriptions \cup {<<>>}]

\* C17: decoding the encoding of a record gives the record back; the
\* encoding is one flag byte, one rating byte, then title and description
\* each behind its length as four little-endian bytes; and decoding a slot of
\* 1000 bytes whose start was overwritten with the encoding gives the record
\* back whatever bytes the slot held before and keeps after the encoding.
C17_RoundTrip ==
    \A r \in RoundTripRecords :
        LET enc == serialize(r)
            tl == Len(r.title)
            dl == Len(r.description)
        IN  /\ try_from_slice_unchecked(enc) = [ok |-> TRUE, value |-> r]
            /\ Len(enc) = 1 + 1 + (4 + tl) + (4 + dl)
            /\ enc[1] = (IF r.is_initialized THEN 1 ELSE 0)
            /\ enc[2] = r.rating
            /\ SubSeq(enc, 3, 6) = <<tl % 256, (tl \div 256) % 256, 0, 0>>
            /\ SubSeq(enc, 7, 6 + tl) = r.title
            /\ SubSeq(enc, 7 + tl, 10 + tl) = <<dl % 256, (dl \div 256) % 256, 0, 0>>
            /\ SubSeq(enc, 11 + tl, 10 + tl + dl) = r.description
            /\ \A a \in Addresses :
                  (Len(accounts[a].data) = 1000 /\ Len(enc) <= 1000) =>
                      LET written == serialize_into(accounts[a].data, enc)
                      IN  /\ written.result = "Ok"
                          /\ Len(written.data) = 1000
                          /\ try_from_slice_unchecked(written.data)
                                = [ok |-> TRUE, value |-> r]
                          /\ SubSeq(written.data, Len(enc) + 1, 1000)
                                = SubSeq(accounts[a].data, Len(enc) + 1, 1000)

\* C17 witness: a slot holds a record whose encoding is shorter than the one
\* written before it, so that bytes of the longer one follow the encoding,
\* and it decodes to a record whose re-encoding is the start of the slot.
C17_Witness ==
    \E a \in PdaAddresses :
        /\ Initialized(a)
        /\ LET enc == serialize(Stored(a))
           IN  /\ SubSeq(accounts[a].data, 1, Len(enc)) = enc
               /\ Len(enc) < 1000
               /\ \E i \in (Len(enc) + 1)..1000 : accounts[a].data[i] # 0

\* The identity whose Create can have made the slot at a derived address:
\* add_movie_review writes only at the address derived from its signer.
CreatorOf(a) == (CHOOSE d \in DerivedAddresses : d.address = a).identity

\* C18: every initialized slot sits at the address derived from its creator
\* and the title it stores; a Create makes its slot so, and a signed Update
\* by the creator at that slot never fails the address check or a check
\* before it.
C18_SlotAtDerivedAddress ==
    /\ \A a \in Addresses :
          Initialized(a) =>
              /\ a \in PdaAddresses
              /\ a = Derive(CreatorOf(a), Stored(a).title)
              /\ \A req \in Requests :
                    (/\ req.pda_account = a
                     /\ req.initializer = CreatorOf(a)
                     /\ req.is_signer) =>
                        update_movie_review(accounts, req).result
                            \in {"Ok", InvalidRating, RecordTooLarge}
    /\ \A req \in Requests :
          LET out == add_movie_review(accounts, req)
          IN  out.result = "Ok" =>
                  /\ CreatorOf(req.pda_account) = req.initializer
                  /\ req.pda_account
                        = Derive(req.initializer, StoredAfter(out, req.pda_account).title)

\* C18 witness: a slot that an Update has rewritten (bytes of a longer record
\* follow its encoding) is initialized, and its creator's Update succeeds.
C18_Witness ==
    \E a \in PdaAddresses :
        /\ Initialized(a)
        /\ \E i \in (Len(serialize(Stored(a))) + 1)..1000 : accounts[a].data[i] # 0
        /\ \E req \in Requests :
              /\ req.pda_account = a
              /\ req.initializer = CreatorOf(a)
              /\ update_movie_review(accounts, req).result = "Ok"

\* The accounts with the bytes after the encoded record of slot a set to
\* zero: the slot as it would be had no longer record ever been in it.
WithoutStaleBytes(a) ==
    LET enc == serialize(Stored(a))
    IN  [accounts EXCEPT ![a].data = enc \o Filler(Len(accounts[a].data) - Len(enc), 0)]

\* C19: after a successful Update the slot decodes to the stored title with
\* the rating and the description of the request, and the bytes after the
\* new encoding are those that were there; and on an initialized slot the
\* bytes after the encoding change neither the decoded record nor the result
\* or the record of any Update.
C19_UpdateStoresRecord ==
    /\ \A req \in Requests :
          LET out == update_movie_review(accounts, req)
              a == req.pda_account
          IN  out.result = "Ok" =>
                  LET record == [is_initialized |-> TRUE,
                                 rating |-> req.rating,
                                 title |-> Stored(a).title,
                                 description |-> req.description]
                      n == Len(serialize(record))
                  IN  /\ try_from_slice_unchecked(out.accounts[a].data)
                            = [ok |-> TRUE, value |-> record]
                      /\ SubSeq(out.accounts[a].data, 1, n) = serialize(record)
                      /\ SubSeq(out.accounts[a].data, n + 1, 1000)
                            = SubSeq(accounts[a].data, n + 1, 1000)
    /\ \A a \in PdaAddresses :
          Initialized(a) =>
              LET clean == WithoutStaleBytes(a)
              IN  /\ try_from_slice_unchecked(clean[a].data)
                        = try_from_slice_unchecked(accounts[a].data)
                  /\ \A req \in Requests :
                        req.pda_account = a =>
                            LET out == update_movie_review(accounts, req)
                                cleanOut == update_movie_review(clean, req)
                            IN  /\ cleanOut.result = out.result
                                /\ try_from_slice_unchecked(cleanOut.accounts[a].data)
                                      = try_from_slice_unchecked(out.accounts[a].data)

\* C19 witness: a successful Update writes an encoding shorter than the one
\* in the slot, and bytes of the old record follow the new encoding.
C19_Witness ==
    \E req \in Requests :
        LET out == update_movie_review(accounts, req)
            a == req.pda_account
        IN  /\ out.result = "Ok"
            /\ Len(serialize(StoredAfter(out, a))) < Len(serialize(Stored(a)))
            /\ \E i \in (Len(serialize(StoredAfter(out, a))) + 1)..1000 :
                  out.accounts[a].data[i] # 0
            /\ \E later \in Requests :
                  /\ later.pda_account = a
                  /\ update_movie_review(out.accounts, later).result = "Ok"
                  /\ later.rating # req.rating

\* What a handler's outcome leaves alone when its target is the address
\* target and its caller the identity payer: every slot at another address
\* is as it was, and so are the identities' accounts but for the balance of
\* the caller, from which Create pays the deposit of its target.
OthersUntouched(out, target, payer) ==
    /\ \A a \in TargetAddresses \ {target} : out.accounts[a] = accounts[a]
    /\ \A k \in Identities \ {target} :
          /\ out.accounts[k].data = accounts[k].data
          /\ out.accounts[k].owner = accounts[k].owner
          /\ k # payer => out.accounts[k].lamports = accounts[k].lamports

\* C20: a Create or an Update, whether it returns Ok or an error, leaves the
\* slot at every address other than its target as it was.
C20_RecordsIsolated ==
    \A req \in Requests :
        /\ OthersUntouched(add_movie_review(accounts, req),
                           req.pda_account, req.initializer)
        /\ OthersUntouched(update_movie_review(accounts, req),
                           req.pda_account, req.initializer)

\* C20 witness: two identities hold a record each, one of them a second one
\* under its other title, and a Create and an Update each change their
\* target.
C20_Witness ==
    /\ \E a, b \in PdaAddresses :
          /\ a # b
          /\ Initialized(a) /\ Initialized(b)
          /\ CreatorOf(a) # CreatorOf(b)
          /\ \E req \in Requests :
                /\ req.pda_account = a
                /\ Changes(update_movie_review(accounts, req), a)
    /\ \E a, b \in PdaAddresses :
          /\ CreatorOf(a) = CreatorOf(b)
          /\ Initialized(a)
          /\ \E req \in Requests :
                /\ req.pda_account = b
                /\ Changes(add_movie_review(accounts, req), b)

====
